---- MODULE Spec2Model ----
(***************************************************************************)
(* Vex: a named-configuration manager for QEMU command lines.              *)
(* The model covers the configuration store (one file per name), the       *)
(* rename protocol (src/commands/rename.rs), the execution engine with its *)
(* parameter substitution (src/commands/exec.rs) and the rm, print, list   *)
(* and save commands.  One invocation of                                   *)
(* the tool runs at a time; each file-system call, prompt, version probe   *)
(* and process launch of a command is one step, so that a crash or an I/O  *)
(* failure between two calls is a state of the model.                      *)
(***************************************************************************)
EXTENDS Integers, Sequences, FiniteSets, TLC

(***************************************************************************)
(* Bounds of the model.                                                    *)
(***************************************************************************)
MaxNames == 2
MaxRecords == 3
MaxExitCode == 3
MaxArgLen == 5

(***************************************************************************)
(* Strings that the program inspects character by character (arguments,    *)
(* environment names and values) are sequences of one-character strings.   *)
(* Strings it only carries around (binary path, description, version) are  *)
(* atoms.  Option<T> is a sequence of length 0 (None) or 1 (Some).         *)
(***************************************************************************)
None == <<>>
Some(x) == <<x>>
IsSome(o) == Len(o) = 1
Unwrap(o) == o[1]

NamePool == <<"a", "b", "c", "d">>
Names == {NamePool[i] : i \in 1..MaxNames}

A_plain == <<"-", "m">>
A_varA == <<"$", "{", "A", "}">>
A_two == <<"x", "$", "{", "A", "}", "$", "{", "B", "}">>
A_empty == <<"$", "{", "}", "$", "{", "B", "}">>

\* QemuConfig values used as stored records.
RecordPool ==
    << [qemu_bin |-> "qemu-x86", args |-> <<A_varA, A_plain>>,
        desc |-> None, qemu_version |-> Some("8.0")],
       [qemu_bin |-> "qemu-arm", args |-> <<>>,
        desc |-> Some("d1"), qemu_version |-> None],
       [qemu_bin |-> "qemu-x86", args |-> <<A_two>>,
        desc |-> Some("d1"), qemu_version |-> Some("9.0")],
       [qemu_bin |-> "qemu-arm", args |-> <<A_plain, A_empty, A_varA>>,
        desc |-> None, qemu_version |-> None] >>
Records == {RecordPool[i] : i \in 1..MaxRecords}

\* Description overrides the caller of rename may supply (Option<String>).
DescOverrides == {None, Some("d2")}

\* Process environments: name -> value, both character sequences.
EnvNone == <<>>
EnvA == [n \in {<<"A">>} |-> <<"v">>]
EnvAB == [n \in {<<"A">>, <<"B">>} |->
            IF n = <<"A">> THEN <<"$", "{", "B", "}">> ELSE <<"w">>]
EnvPool == {EnvNone, EnvA, EnvAB}

\* The environments the commands are run under: nothing set, and A and B set
\* with the value of A holding a placeholder.
ExecEnvs == {EnvNone, EnvAB}

\* What the version probe can report for a binary (Option<String>).
ProbeOutcomes == {None, Some("8.0"), Some("9.0")}

(***************************************************************************)
(* Files.  A path of the configuration directory holds no file, a file     *)
(* whose content does not deserialize to a QemuConfig (truncated, edited   *)
(* by hand), or the JSON object of a record.  The JSON object is the       *)
(* function from the keys that are present to their values.                *)
(***************************************************************************)
Absent == [kind |-> "absent", obj |-> <<>>]
Garbage == [kind |-> "garbage", obj |-> <<>>]

\* serde_json::to_string_pretty(&config): an absent optional field is no key.
ToJson(config) ==
    LET keys == {"qemu_bin", "args"}
                  \cup (IF IsSome(config.desc) THEN {"desc"} ELSE {})
                  \cup (IF IsSome(config.qemu_version) THEN {"qemu_version"} ELSE {})
    IN [kind |-> "json",
        obj |-> [k \in keys |->
                   CASE k = "qemu_bin" -> config.qemu_bin
                     [] k = "args" -> config.args
                     [] k = "desc" -> Unwrap(config.desc)
                     [] k = "qemu_version" -> Unwrap(config.qemu_version)]]

\* serde_json::from_str::<QemuConfig>(&content) succeeds.
Deserializes(file) == file.kind = "json"

\* serde_json::from_str::<QemuConfig>(&content): a missing optional key is None.
FromJson(file) ==
    [qemu_bin |-> file.obj["qemu_bin"],
     args |-> file.obj["args"],
     desc |-> IF "desc" \in DOMAIN file.obj THEN Some(file.obj["desc"]) ELSE None,
     qemu_version |-> IF "qemu_version" \in DOMAIN file.obj
                        THEN Some(file.obj["qemu_version"]) ELSE None]

\* config_file(name)?.exists()
Exists(st, name) == st[name].kind # "absent"

Files == {Absent, Garbage} \cup {ToJson(r) : r \in Records}

(***************************************************************************)
(* Results of a command: anyhow::Result<()> as seen by the caller.         *)
(***************************************************************************)
NoResult == [kind |-> "none", err |-> "", code |-> 0, path |-> ""]
Ok == [kind |-> "ok", err |-> "", code |-> 0, path |-> ""]
Crashed == [kind |-> "crashed", err |-> "", code |-> 0, path |-> ""]
Err(e) == [kind |-> "err", err |-> e, code |-> 0, path |-> ""]

NoConfig == [qemu_bin |-> "", args |-> <<>>, desc |-> None, qemu_version |-> None]
NoOp == [cmd |-> "none", name |-> "", new_name |-> "", desc |-> None,
         force |-> FALSE, debug |-> FALSE, full |-> FALSE, record |-> NoConfig]

VARIABLES
    store,      \* the configuration directory: name -> file
    env,        \* the process environment
    pc,         \* position of the running command ("idle": none runs, "done": returned)
    op,         \* the command and its arguments
    config,     \* the command's local `config` once loaded
    exec_args,  \* exec's local `exec_args`
    out,        \* lines printed by the command, as tags, in order
    result,     \* what the last command returned
    store0,     \* the store when the command started
    prompts,    \* answers to the confirmation prompts of the command, in order
    probes,     \* version probes made by the command: binary and answer, in order
    launches,   \* launches of the binary by the command, in order
    dir_exists, \* whether the configuration directory exists
    others,     \* entries of the directory that are not <name>.json
    listed,     \* list's local `configs`: (name, config) pairs in directory order
    unreadable, \* names whose file list could not read
    hist        \* history of the names over the commands run so far (see NoHist)

\* The directory itself and what list has collected.
dirvars == <<dir_exists, others, listed, unreadable>>

vars == <<store, env, pc, op, config, exec_args, out, result, store0, prompts,
          probes, launches, dir_exists, others, listed, unreadable, hist>>

\* History kept across commands, recorded when on is set.  gone: the names
\* taken away by a successful rm or a successful rename to another name and
\* not written since by a save or a rename onto them; gone0: gone when the
\* running command started; moved: the last successful rename to another
\* name (to = "" when there is none), with the file its source held and the
\* description override it was given, kept while the commands that follow
\* are exec or print of its target.
NoMove == [to |-> "", file |-> Absent, desc |-> None]
NoHist == [on |-> FALSE, gone |-> {}, gone0 |-> {}, moved |-> NoMove]

\* A command described by o starts.
Started(h, o) ==
    [h EXCEPT !.gone0 = h.gone,
              !.moved = IF o.cmd \in {"exec", "print"} /\ o.name = @.to
                          THEN @ ELSE NoMove]

\* A save or a rename has put a file under name n.
Written(h, n) ==
    IF ~h.on THEN h
    ELSE [h EXCEPT !.gone = @ \ {n}, !.moved = IF @.to = n THEN NoMove ELSE @]

\* A successful rm or rename has removed the file of name n.
Removed(h, n) ==
    IF ~h.on THEN h
    ELSE [h EXCEPT !.gone = @ \cup {n}, !.moved = IF @.to = n THEN NoMove ELSE @]

\* A successful rename has moved the file held by old to another name new.
Moved(h, old, new, file, desc) ==
    IF ~h.on \/ old = new THEN h
    ELSE [Removed(h, old) EXCEPT
            !.moved = [to |-> new, file |-> file, desc |-> desc]]

\* Entries of the directory without the .json suffix; each holds a valid record.
OtherEntries ==
    { [stem |-> "notes", ext |-> "txt", file |-> ToJson(RecordPool[1])],
      [stem |-> "README", ext |-> "", file |-> ToJson(RecordPool[2])] }

\* No command runs.  A missing directory holds no file.
InitWith(envs, otherSets, on) ==
    /\ dir_exists \in BOOLEAN
    /\ store \in (IF dir_exists THEN [Names -> Files] ELSE {[n \in Names |-> Absent]})
    /\ others \in (IF dir_exists THEN otherSets ELSE {{}})
    /\ listed = <<>>
    /\ unreadable = {}
    /\ hist = [NoHist EXCEPT !.on = on]
    /\ env \in envs
    /\ pc = "idle"
    /\ op = NoOp
    /\ config = NoConfig
    /\ exec_args = <<>>
    /\ out = <<>>
    /\ result = NoResult
    /\ store0 = store
    /\ prompts = <<>>
    /\ probes = <<>>
    /\ launches = <<>>

Init == InitWith(ExecEnvs, {{}}, FALSE)

\* The same with foreign entries in the directory, under one environment.
InitDir == InitWith({<<>>}, {{}, OtherEntries}, FALSE)

\* The same as Init under one environment, with the history recorded.
InitHist == InitWith({<<>>}, {{}}, TRUE)

\* A command starts: its locals are fresh.
Begin(o, at) ==
    /\ pc = "idle"
    /\ op' = o
    /\ pc' = at
    /\ config' = NoConfig
    /\ exec_args' = <<>>
    /\ out' = <<>>
    /\ result' = NoResult
    /\ store0' = store
    /\ prompts' = <<>>
    /\ probes' = <<>>
    /\ launches' = <<>>
    /\ listed' = <<>>
    /\ unreadable' = {}
    /\ hist' = Started(hist, o)
    /\ UNCHANGED <<store, env, dir_exists, others>>

\* The command returns r to its caller.
Return(r) ==
    /\ pc' = "done"
    /\ result' = r

\* The process of the command is gone; the next invocation is a new process.
Exit ==
    /\ pc = "done"
    /\ pc' = "idle"
    /\ op' = NoOp
    /\ config' = NoConfig
    /\ exec_args' = <<>>
    /\ out' = <<>>
    /\ result' = NoResult
    /\ store0' = store
    /\ prompts' = <<>>
    /\ probes' = <<>>
    /\ launches' = <<>>
    /\ listed' = <<>>
    /\ unreadable' = {}
    /\ hist' = [hist EXCEPT !.gone0 = hist.gone]
    /\ UNCHANGED <<store, env, dir_exists, others>>

(***************************************************************************)
(* File-system calls and their outcomes.                                   *)
(***************************************************************************)
\* fs::write(path, content): create-or-truncate, then write everything.  It
\* fails either before the file is touched or after it was truncated.
FsWrite(st, name, content) ==
    { [ok |-> TRUE, st |-> [st EXCEPT ![name] = content]],
      [ok |-> FALSE, st |-> st],
      [ok |-> FALSE, st |-> [st EXCEPT ![name] = Garbage]] }

\* fs::remove_file(path): the file is gone, or the call fails and it stays.
FsRemove(st, name) ==
    { [ok |-> TRUE, st |-> [st EXCEPT ![name] = Absent]],
      [ok |-> FALSE, st |-> st] }

\* The lines of msg that were printed when the process died in the printing
\* of msg or right after it: none, some of the first ones, or all of them.
Printed(msg) == {SubSeq(msg, 1, k) : k \in 0..Len(msg)}

(***************************************************************************)
(* rename_command(desc, force, old_name, new_name)                         *)
(***************************************************************************)
RenameStart(old, new, desc, force) ==
    Begin([NoOp EXCEPT !.cmd = "rename", !.name = old, !.new_name = new,
                       !.desc = desc, !.force = force], "rn_check_old")

\* Mutant: the existence check of old never bails.
RenameCheckOld_NoBail ==
    /\ pc = "rn_check_old"
    /\ UNCHANGED dirvars
    /\ UNCHANGED hist
    /\ pc' = "rn_check_new"
    /\ UNCHANGED <<store, env, op, config, exec_args, out, result, store0, prompts,
                   probes, launches>>

\* if !old_config_path.exists() { bail!(...) }
RenameCheckOld ==
    /\ pc = "rn_check_old"
    /\ UNCHANGED dirvars
    /\ UNCHANGED hist
    /\ IF ~Exists(store, op.name)
         THEN Return(Err("NotFound"))
         ELSE pc' = "rn_check_new" /\ UNCHANGED result
    /\ UNCHANGED <<store, env, op, config, exec_args, out, store0, prompts, probes, launches>>

\* Mutant: the force flag is not consulted.
NeedsPrompt_IgnoreForce(st, new, force) == Exists(st, new)

\* if new_config_path.exists() && !force
NeedsPrompt(st, new, force) == Exists(st, new) /\ ~force

\* Mutant: the answer is read the wrong way round (a "no" goes on, a "yes" cancels).
RenameCheckNew_Inverted ==
    /\ pc = "rn_check_new"
    /\ UNCHANGED dirvars
    /\ UNCHANGED hist
    /\ IF NeedsPrompt(store, op.new_name, op.force)
         THEN \E answer \in {"yes", "no", "error"} :
                /\ prompts' = Append(prompts, answer)
                /\ CASE answer = "no" ->
                          pc' = "rn_load" /\ UNCHANGED <<out, result>>
                     [] answer = "yes" ->
                          out' = Append(out, "Rename cancelled") /\ Return(Ok)
                     [] answer = "error" ->
                          UNCHANGED out /\ Return(Err("PromptFailed"))
         ELSE pc' = "rn_load" /\ UNCHANGED <<out, result, prompts>>
    /\ UNCHANGED <<store, env, op, config, exec_args, store0, probes, launches>>

\* println!(.. overwrite? [y/N]); if !prompt_user_default_no()? { .. return Ok(()) }
\* The prompt answers yes or no, or fails.
RenameCheckNew ==
    /\ pc = "rn_check_new"
    /\ UNCHANGED dirvars
    /\ UNCHANGED hist
    /\ IF NeedsPrompt(store, op.new_name, op.force)
         THEN \E answer \in {"yes", "no", "error"} :
                /\ prompts' = Append(prompts, answer)
                /\ CASE answer = "yes" ->
                          pc' = "rn_load" /\ UNCHANGED <<out, result>>
                     [] answer = "no" ->
                          out' = Append(out, "Rename cancelled") /\ Return(Ok)
                     [] answer = "error" ->
                          UNCHANGED out /\ Return(Err("PromptFailed"))
         ELSE pc' = "rn_load" /\ UNCHANGED <<out, result, prompts>>
    /\ UNCHANGED <<store, env, op, config, exec_args, store0, probes, launches>>

\* Mutant: the description is assigned unconditionally.
Overlay_Clobber(c, desc) == [c EXCEPT !.desc = desc]

\* if let Some(new_desc) = desc { config.desc = Some(new_desc); }
Overlay(c, desc) == IF IsSome(desc) THEN [c EXCEPT !.desc = desc] ELSE c

\* Mutant: a record that does not deserialize is replaced by the default one.
RenameLoad_DefaultOnMalformed ==
    /\ pc = "rn_load"
    /\ UNCHANGED dirvars
    /\ UNCHANGED hist
    /\ \/ Return(Err("ReadFailed")) /\ UNCHANGED config
       \/ /\ config' = Overlay(IF Deserializes(store[op.name])
                                  THEN FromJson(store[op.name]) ELSE NoConfig,
                                op.desc)
          /\ pc' = "rn_write"
          /\ UNCHANGED result
    /\ UNCHANGED <<store, env, op, exec_args, out, store0, prompts, probes, launches>>

\* fs::read_to_string(&old_config_path)?, serde_json::from_str(..)?, the overlay.
RenameLoad ==
    /\ pc = "rn_load"
    /\ UNCHANGED dirvars
    /\ UNCHANGED hist
    /\ \/ Return(Err("ReadFailed")) /\ UNCHANGED config
       \/ /\ ~Deserializes(store[op.name])
          /\ Return(Err("DeserializeFailed"))
          /\ UNCHANGED config
       \/ /\ Deserializes(store[op.name])
          /\ config' = Overlay(FromJson(store[op.name]), op.desc)
          /\ pc' = "rn_write"
          /\ UNCHANGED result
    /\ UNCHANGED <<store, env, op, exec_args, out, store0, prompts, probes, launches>>

\* Mutant: the failure of the write is ignored and the delete still runs.
RenameWrite_IgnoreFailure ==
    /\ pc = "rn_write"
    /\ UNCHANGED dirvars
    /\ \E w \in FsWrite(store, op.new_name, ToJson(config)) :
         /\ store' = w.st
         /\ hist' = IF w.st[op.new_name] # store[op.new_name]
                      THEN Written(hist, op.new_name) ELSE hist
         /\ pc' = "rn_remove"
         /\ UNCHANGED result
    /\ UNCHANGED <<env, op, config, exec_args, out, store0, prompts, probes, launches>>

\* fs::write(&new_config_path, new_config_json)?
RenameWrite ==
    /\ pc = "rn_write"
    /\ UNCHANGED dirvars
    /\ \E w \in FsWrite(store, op.new_name, ToJson(config)) :
         /\ store' = w.st
         /\ hist' = IF w.st[op.new_name] # store[op.new_name]
                      THEN Written(hist, op.new_name) ELSE hist
         /\ IF w.ok
              THEN pc' = "rn_remove" /\ UNCHANGED result
              ELSE Return(Err("WriteFailed"))
    /\ UNCHANGED <<env, op, config, exec_args, out, store0, prompts, probes, launches>>

\* fs::remove_file(&old_config_path)?
RenameRemove ==
    /\ pc = "rn_remove"
    /\ UNCHANGED dirvars
    /\ \E r \in FsRemove(store, op.name) :
         /\ store' = r.st
         /\ IF r.ok
              THEN pc' = "rn_report" /\ UNCHANGED result
              ELSE Return(Err("DeleteFailed"))
    /\ UNCHANGED <<env, op, config, exec_args, out, store0, prompts, probes, launches,
                   hist>>

\* println!("Configuration '{}' renamed to '{}' ..."); Ok(())
RenameReport ==
    /\ pc = "rn_report"
    /\ UNCHANGED dirvars
    /\ out' = Append(out, "renamed")
    /\ hist' = Moved(hist, op.name, op.new_name, store0[op.name], op.desc)
    /\ Return(Ok)
    /\ UNCHANGED <<store, env, op, config, exec_args, store0, prompts, probes, launches>>

\* The process dies during rename: it is killed, or println! panics because
\* the standard output cannot be written.  Between two calls nothing changes,
\* so after fs::remove_file returned old's file is gone; inside fs::write the
\* target may already be truncated or partly written; after the answer no
\* the death is in or after println!("Rename cancelled"), and after the
\* delete it is in or after the println! of the report.
RenameCrash ==
    /\ pc \in {"rn_check_old", "rn_check_new", "rn_load", "rn_write", "rn_remove",
               "rn_report"}
    /\ UNCHANGED dirvars
    /\ \/ UNCHANGED <<store, hist, prompts, out>>
       \/ /\ pc = "rn_write"
          /\ store' = [store EXCEPT ![op.new_name] = Garbage]
          /\ hist' = Written(hist, op.new_name)
          /\ UNCHANGED <<prompts, out>>
       \/ /\ pc = "rn_check_new"
          /\ NeedsPrompt(store, op.new_name, op.force)
          /\ prompts' = Append(prompts, "no")
          /\ \E printed \in Printed(<<"Rename cancelled">>) : out' = out \o printed
          /\ UNCHANGED <<store, hist>>
       \/ /\ pc = "rn_report"
          /\ \E printed \in Printed(<<"renamed">>) : out' = out \o printed
          /\ UNCHANGED <<store, hist, prompts>>
    /\ Return(Crashed)
    /\ UNCHANGED <<env, op, config, exec_args, store0, probes, launches>>

(***************************************************************************)
(* substitute_params(args): Regex \$\{([^}]+)\} replaced in every argument  *)
(***************************************************************************)
\* The position of the closing brace of the match that starts at i, 0 if the
\* pattern does not match at i.  [^}]+ is one or more characters up to the
\* first closing brace.
MatchEnd(s, i) ==
    IF /\ i + 3 <= Len(s)
       /\ s[i] = "$"
       /\ s[i + 1] = "{"
       /\ s[i + 2] # "}"
       /\ \E j \in (i + 3)..Len(s) : s[j] = "}"
    THEN CHOOSE j \in (i + 3)..Len(s) :
            s[j] = "}" /\ \A k \in (i + 3)..(j - 1) : s[k] # "}"
    ELSE 0

\* std::env::var(name)
EnvVar(e, name) == IF name \in DOMAIN e THEN Some(e[name]) ELSE None

\* Mutant: an unset variable is replaced by the empty string.
Replacement_EmptyOnUnset(e, name) ==
    IF IsSome(EnvVar(e, name)) THEN Unwrap(EnvVar(e, name)) ELSE <<>>

\* The closure: env::var(&caps[1]).unwrap_or_else(|_| format!("${{{}}}", &caps[1]))
Replacement(e, name) ==
    IF IsSome(EnvVar(e, name)) THEN Unwrap(EnvVar(e, name))
    ELSE <<"$", "{">> \o name \o <<"}">>

\* Mutant: the result of a pass is scanned again.
RECURSIVE OnePass(_, _, _)
OnePass(s, i, e) ==
    IF i > Len(s) THEN <<>>
    ELSE IF MatchEnd(s, i) # 0
      THEN Replacement(e, SubSeq(s, i + 2, MatchEnd(s, i) - 1))
             \o OnePass(s, MatchEnd(s, i) + 1, e)
      ELSE <<s[i]>> \o OnePass(s, i + 1, e)
ReplaceAll_Rescan(s, i, e) == OnePass(OnePass(s, i, e), 1, e)

\* re.replace_all(arg, ..): leftmost non-overlapping matches, scanning resumes
\* after each match in the input.
RECURSIVE ReplaceAll(_, _, _)
ReplaceAll(s, i, e) ==
    IF i > Len(s) THEN <<>>
    ELSE IF MatchEnd(s, i) # 0
      THEN Replacement(e, SubSeq(s, i + 2, MatchEnd(s, i) - 1))
             \o ReplaceAll(s, MatchEnd(s, i) + 1, e)
      ELSE <<s[i]>> \o ReplaceAll(s, i + 1, e)

\* Mutant: arguments that come out empty are dropped.
substitute_params_DropEmpty(args, e) ==
    LET NonEmpty(a) == a # <<>>
    IN SelectSeq([i \in 1..Len(args) |-> ReplaceAll(args[i], 1, e)], NonEmpty)

substitute_params(args, e) == [i \in 1..Len(args) |-> ReplaceAll(args[i], 1, e)]

(***************************************************************************)
(* substitute_params on its own: every argument list of the forms below    *)
(* under every environment below.                                          *)
(***************************************************************************)
SubstChars == {"$", "{", "}", "A"}
SubstStrings == UNION {[1..k -> SubstChars] : k \in 0..MaxArgLen}
SubstArgs ==
    {<<>>} \cup {<<s>> : s \in SubstStrings}
           \cup {<<s, A_varA>> : s \in SubstStrings}
           \cup {<<A_plain, s, A_two>> : s \in SubstStrings}
SubstEnvs ==
    EnvPool \cup { [n \in {<<"A">>} |-> <<"$", "{", "A", "}">>],
                   [n \in {<<"A">>} |-> <<"$", "{", "A">>],
                   [n \in {<<"A">>} |-> <<"{", "A", "}">>] }

InitSubst ==
    /\ config \in {[NoConfig EXCEPT !.args = a] : a \in SubstArgs}
    /\ env \in SubstEnvs
    /\ pc = "sub_input"
    /\ exec_args = <<>>
    /\ store = [n \in Names |-> Absent]
    /\ store0 = store
    /\ op = NoOp
    /\ out = <<>>
    /\ result = NoResult
    /\ prompts = <<>>
    /\ probes = <<>>
    /\ launches = <<>>
    /\ dir_exists = FALSE
    /\ others = {}
    /\ listed = <<>>
    /\ unreadable = {}
    /\ hist = NoHist

\* exec_args = substitute_params(&exec_args)
SubstApply ==
    /\ pc = "sub_input"
    /\ exec_args' = substitute_params(config.args, env)
    /\ pc' = "sub_done"
    /\ UNCHANGED <<store, env, op, config, out, result, store0, prompts, probes, launches>>
    /\ UNCHANGED dirvars
    /\ UNCHANGED hist

SpecSubst == InitSubst /\ [][SubstApply]_vars

(***************************************************************************)
(* exec_command(name, debug, full)                                         *)
(***************************************************************************)
ExecStart(name, debug, full) ==
    Begin([NoOp EXCEPT !.cmd = "exec", !.name = name, !.debug = debug,
                       !.full = full], "ex_check")

\* if !config_path.exists() { bail!(...) }
ExecCheck ==
    /\ pc = "ex_check"
    /\ UNCHANGED dirvars
    /\ UNCHANGED hist
    /\ IF ~Exists(store, op.name)
         THEN Return(Err("NotFound"))
         ELSE pc' = "ex_load" /\ UNCHANGED result
    /\ UNCHANGED <<store, env, op, config, exec_args, out, store0, prompts, probes, launches>>

\* fs::read_to_string(&config_path)?, serde_json::from_str(..)?
ExecLoad ==
    /\ pc = "ex_load"
    /\ UNCHANGED dirvars
    /\ UNCHANGED hist
    /\ \/ Return(Err("ReadFailed")) /\ UNCHANGED config
       \/ /\ ~Deserializes(store[op.name])
          /\ Return(Err("DeserializeFailed"))
          /\ UNCHANGED config
       \/ /\ Deserializes(store[op.name])
          /\ config' = FromJson(store[op.name])
          /\ pc' = "ex_version"
          /\ UNCHANGED result
    /\ UNCHANGED <<store, env, op, exec_args, out, store0, prompts, probes, launches>>

\* The match on get_qemu_version's answer: the lines it prints.
VersionWarning(saved_ver, current_ver) ==
    IF IsSome(current_ver) /\ Unwrap(current_ver) # saved_ver
      THEN <<"WARNING: Version mismatch!">>
    ELSE IF ~IsSome(current_ver)
      THEN <<"WARNING: Could not detect current QEMU version.">>
    ELSE <<>>

\* Mutant: an undetectable version is an error instead of a warning.
ExecVersion_Blocking ==
    /\ pc = "ex_version"
    /\ UNCHANGED dirvars
    /\ UNCHANGED hist
    /\ IF IsSome(config.qemu_version)
         THEN \E current_ver \in ProbeOutcomes :
                /\ probes' = Append(probes, [bin |-> config.qemu_bin,
                                             answer |-> current_ver])
                /\ out' = out \o VersionWarning(Unwrap(config.qemu_version), current_ver)
                /\ IF IsSome(current_ver)
                     THEN pc' = "ex_args" /\ UNCHANGED result
                     ELSE Return(Err("VersionUnknown"))
         ELSE pc' = "ex_args" /\ UNCHANGED <<probes, out, result>>
    /\ UNCHANGED <<store, env, op, config, exec_args, store0, prompts, launches>>

\* if let Some(saved_ver) = &config.qemu_version { get_qemu_version(..); match .. }
ExecVersion ==
    /\ pc = "ex_version"
    /\ UNCHANGED dirvars
    /\ UNCHANGED hist
    /\ IF IsSome(config.qemu_version)
         THEN \E current_ver \in ProbeOutcomes :
                /\ probes' = Append(probes, [bin |-> config.qemu_bin, answer |-> current_ver])
                /\ out' = out \o VersionWarning(Unwrap(config.qemu_version), current_ver)
         ELSE UNCHANGED <<probes, out>>
    /\ pc' = "ex_args"
    /\ UNCHANGED <<store, env, op, config, exec_args, result, store0, prompts, launches>>

\* Mutant: the two tokens are pushed in the other order.
DebugArgs_Swapped(args, debug) ==
    IF debug THEN args \o << <<"-", "S">>, <<"-", "s">> >> ELSE args

\* if debug { exec_args.push("-s"); exec_args.push("-S"); }
DebugArgs(args, debug) ==
    IF debug THEN args \o << <<"-", "s">>, <<"-", "S">> >> ELSE args

\* print_startup_message(name, config, args, debug, full)
StartupMessage(debug, full) ==
    <<"Starting configuration">>
      \o (IF full THEN <<"Args">> ELSE <<>>)
      \o (IF debug THEN <<"Mode: DEBUG">> ELSE <<>>)

\* Mutant: the effective arguments are stored back into the configuration.
ExecArgs_WriteBack ==
    /\ pc = "ex_args"
    /\ UNCHANGED dirvars
    /\ UNCHANGED hist
    /\ exec_args' = DebugArgs(substitute_params(config.args, env), op.debug)
    /\ store' = [store EXCEPT ![op.name] =
                    ToJson([config EXCEPT !.args = exec_args'])]
    /\ out' = out \o StartupMessage(op.debug, op.full)
    /\ pc' = "ex_launch"
    /\ UNCHANGED <<env, op, config, result, store0, prompts, probes, launches>>

\* exec_args = substitute_params(&config.args.clone()), the debug tokens, the banner.
ExecArgs ==
    /\ pc = "ex_args"
    /\ UNCHANGED dirvars
    /\ UNCHANGED hist
    /\ exec_args' = DebugArgs(substitute_params(config.args, env), op.debug)
    /\ out' = out \o StartupMessage(op.debug, op.full)
    /\ pc' = "ex_launch"
    /\ UNCHANGED <<store, env, op, config, result, store0, prompts, probes, launches>>

\* What Command::status() can give: no process (spawn failed), an exit code,
\* or a termination without a code.  seen: status() has returned it.
LaunchOutcomes ==
    {[spawned |-> FALSE, code |-> None, seen |-> TRUE],
     [spawned |-> TRUE, code |-> None, seen |-> TRUE]}
      \cup {[spawned |-> TRUE, code |-> Some(c), seen |-> TRUE] : c \in 0..MaxExitCode}

\* The child was started and exec ended while status() waited for it.
Unseen == [spawned |-> TRUE, code |-> None, seen |-> FALSE]

\* status.success()
Success(status) == status.code = Some(0)

\* Mutant: a termination without a code is taken for code 0.
ExitResult_ZeroSentinel(status, bin) ==
    IF ~status.spawned THEN [Err("SpawnFailed") EXCEPT !.path = bin]
    ELSE IF IsSome(status.code) /\ Unwrap(status.code) # 0
      THEN [Err("ExecutionFailed") EXCEPT !.code = Unwrap(status.code)]
    ELSE Ok

\* .with_context(.. config.qemu_bin)?; if !status.success() { bail!(.. code) }; Ok(())
ExitResult(status, bin) ==
    IF ~status.spawned THEN [Err("SpawnFailed") EXCEPT !.path = bin]
    ELSE IF ~Success(status)
      THEN [Err("ExecutionFailed") EXCEPT
              !.code = IF IsSome(status.code) THEN Unwrap(status.code) ELSE -1]
    ELSE Ok

\* Mutant: a failed spawn is tried again.
ExecLaunch_Retry ==
    /\ pc = "ex_launch"
    /\ UNCHANGED dirvars
    /\ UNCHANGED hist
    /\ \E status \in LaunchOutcomes :
         /\ launches' = Append(launches,
                 [bin |-> config.qemu_bin, args |-> exec_args, status |-> status])
         /\ IF ~status.spawned /\ Len(launches) < 2
              THEN UNCHANGED <<pc, result>>
              ELSE Return(ExitResult(status, config.qemu_bin))
    /\ UNCHANGED <<store, env, op, config, exec_args, out, store0, prompts, probes>>

\* Command::new(&config.qemu_bin).args(&exec_args).status()
ExecLaunch ==
    /\ pc = "ex_launch"
    /\ UNCHANGED dirvars
    /\ UNCHANGED hist
    /\ \E status \in LaunchOutcomes :
         /\ launches' = Append(launches,
                 [bin |-> config.qemu_bin, args |-> exec_args, status |-> status])
         /\ Return(ExitResult(status, config.qemu_bin))
    /\ UNCHANGED <<store, env, op, config, exec_args, out, store0, prompts, probes>>

\* The process dies during exec: it is killed, or println! panics because
\* the standard output cannot be written.  Between two calls nothing changes;
\* it can die after the probe answered, in the banner after the arguments
\* were computed, and while status() waits for the child it started.
ExecCrash ==
    /\ pc \in {"ex_check", "ex_load", "ex_version", "ex_args", "ex_launch"}
    /\ UNCHANGED dirvars
    /\ UNCHANGED hist
    /\ \/ UNCHANGED <<exec_args, out, probes, launches>>
       \/ /\ pc = "ex_version"
          /\ IsSome(config.qemu_version)
          /\ \E current_ver \in ProbeOutcomes :
               probes' = Append(probes, [bin |-> config.qemu_bin, answer |-> current_ver])
          /\ UNCHANGED <<exec_args, out, launches>>
       \/ /\ pc = "ex_args"
          /\ exec_args' = DebugArgs(substitute_params(config.args, env), op.debug)
          /\ \E printed \in Printed(StartupMessage(op.debug, op.full)) :
               out' = out \o printed
          /\ UNCHANGED <<probes, launches>>
       \/ /\ pc = "ex_launch"
          /\ launches' = Append(launches,
                  [bin |-> config.qemu_bin, args |-> exec_args, status |-> Unseen])
          /\ UNCHANGED <<exec_args, out, probes>>
    /\ Return(Crashed)
    /\ UNCHANGED <<store, env, op, config, store0, prompts>>

(***************************************************************************)
(* remove_command(name)                                                    *)
(***************************************************************************)
RemoveStart(name) == Begin([NoOp EXCEPT !.cmd = "rm", !.name = name], "rm_check")

\* Mutant: the existence check of rm never bails.
RemoveCheck_NoBail ==
    /\ pc = "rm_check"
    /\ pc' = "rm_remove"
    /\ UNCHANGED <<store, env, op, config, exec_args, out, result, store0, prompts,
                   probes, launches>>
    /\ UNCHANGED dirvars
    /\ UNCHANGED hist

\* if !config_path.exists() { bail!(...) }
RemoveCheck ==
    /\ pc = "rm_check"
    /\ IF ~Exists(store, op.name)
         THEN Return(Err("NotFound"))
         ELSE pc' = "rm_remove" /\ UNCHANGED result
    /\ UNCHANGED <<store, env, op, config, exec_args, out, store0, prompts, probes, launches>>
    /\ UNCHANGED dirvars
    /\ UNCHANGED hist

\* fs::remove_file(&config_path)?
RemoveFile ==
    /\ pc = "rm_remove"
    /\ \E r \in FsRemove(store, op.name) :
         /\ store' = r.st
         /\ IF r.ok
              THEN pc' = "rm_report" /\ UNCHANGED result
              ELSE Return(Err("DeleteFailed"))
    /\ UNCHANGED <<env, op, config, exec_args, out, store0, prompts, probes, launches,
                   hist>>
    /\ UNCHANGED dirvars

\* println!("Configuration '{}' deleted", name); Ok(())
RemoveReport ==
    /\ pc = "rm_report"
    /\ out' = Append(out, "deleted")
    /\ hist' = Removed(hist, op.name)
    /\ Return(Ok)
    /\ UNCHANGED <<store, env, op, config, exec_args, store0, prompts, probes, launches>>
    /\ UNCHANGED dirvars

\* The process dies during rm: it is killed, or println! panics because the
\* standard output cannot be written.  After fs::remove_file returned the
\* file is gone, and the death is in or after the println! of the report.
RemoveCrash ==
    /\ pc \in {"rm_check", "rm_remove", "rm_report"}
    /\ \/ UNCHANGED out
       \/ /\ pc = "rm_report"
          /\ \E printed \in Printed(<<"deleted">>) : out' = out \o printed
    /\ Return(Crashed)
    /\ UNCHANGED <<store, env, op, config, exec_args, store0, prompts, probes,
                   launches, hist>>
    /\ UNCHANGED dirvars

(***************************************************************************)
(* print_command(name)                                                     *)
(***************************************************************************)
PrintStart(name) == Begin([NoOp EXCEPT !.cmd = "print", !.name = name], "pr_check")

\* Mutant: print goes on to read the file of a name that has none.
PrintCheck_NoBail ==
    /\ pc = "pr_check"
    /\ UNCHANGED dirvars
    /\ UNCHANGED hist
    /\ pc' = "pr_load"
    /\ UNCHANGED <<store, env, op, config, exec_args, out, result, store0, prompts,
                   probes, launches>>

\* if !config_path.exists() { bail!(...) }
PrintCheck ==
    /\ pc = "pr_check"
    /\ IF ~Exists(store, op.name)
         THEN Return(Err("NotFound"))
         ELSE pc' = "pr_load" /\ UNCHANGED result
    /\ UNCHANGED <<store, env, op, config, exec_args, out, store0, prompts, probes, launches>>
    /\ UNCHANGED dirvars
    /\ UNCHANGED hist

\* The lines print_command prints for a record.
PrintOutput(c) ==
    <<"Configuration">>
      \o (IF IsSome(c.desc) THEN <<"Description">> ELSE <<>>)
      \o <<"QEMU Binary", "Startup Arguments">>
      \o (IF c.args = <<>> THEN <<"(no arguments)">> ELSE <<>>)
      \o <<"Full Command", "Configuration File">>

\* fs::read_to_string(&config_path)?, serde_json::from_str(..)?, the printing, Ok(())
PrintLoad ==
    /\ pc = "pr_load"
    /\ \/ Return(Err("ReadFailed")) /\ UNCHANGED <<config, out>>
       \/ /\ ~Deserializes(store[op.name])
          /\ Return(Err("DeserializeFailed"))
          /\ UNCHANGED <<config, out>>
       \/ /\ Deserializes(store[op.name])
          /\ config' = FromJson(store[op.name])
          /\ out' = PrintOutput(FromJson(store[op.name]))
          /\ Return(Ok)
    /\ UNCHANGED <<store, env, op, exec_args, store0, prompts, probes, launches>>
    /\ UNCHANGED dirvars
    /\ UNCHANGED hist

\* The process dies during print: it is killed, or one of its println!
\* panics after the record was loaded; it can die after the last line too.
PrintCrash ==
    /\ pc \in {"pr_check", "pr_load"}
    /\ \/ UNCHANGED <<config, out>>
       \/ /\ pc = "pr_load"
          /\ Deserializes(store[op.name])
          /\ config' = FromJson(store[op.name])
          /\ \E printed \in Printed(PrintOutput(FromJson(store[op.name]))) :
               out' = printed
    /\ Return(Crashed)
    /\ UNCHANGED <<store, env, op, exec_args, store0, prompts, probes, launches>>
    /\ UNCHANGED dirvars
    /\ UNCHANGED hist

(***************************************************************************)
(* list_command()                                                          *)
(***************************************************************************)
ListStart == Begin([NoOp EXCEPT !.cmd = "list"], "ls_dir")

\* fs::read_dir(&dir): the configurations and the other entries.
DirEntries(st, oth) ==
    {[stem |-> n, ext |-> "json", file |-> st[n]] : n \in {m \in Names : Exists(st, m)}}
      \cup oth

\* path.extension().is_some_and(|ext| ext == "json")
Recognized(entry) == entry.ext = "json"

\* The loop body: an entry is pushed when it has the suffix, its file was
\* read and its content deserializes; otherwise it is skipped.
Enumerate(entries, unread) ==
    {[name |-> e.stem, config |-> FromJson(e.file)] :
        e \in {x \in entries : Recognized(x) /\ x.stem \notin unread /\ Deserializes(x.file)}}

\* The orders in which the directory can hand out a set of entries.
Orders(S) ==
    {q \in [1..Cardinality(S) -> S] : \A i, j \in 1..Cardinality(S) : q[i] = q[j] => i = j}

\* The lines list_command prints for its configs.
ListOutput(configs) ==
    IF configs = <<>> THEN <<"No configurations found.">>
    ELSE <<"Saved configurations:">>
           \o [i \in 1..Len(configs) |->
                 IF IsSome(configs[i].config.desc) THEN "name - desc"
                 ELSE "name - (no description)"]

\* Mutant: a file that does not deserialize ends the listing with an error.
ListRun_FailOnCorrupt ==
    /\ pc = "ls_dir"
    /\ IF ~dir_exists
         THEN /\ out' = <<"No configurations saved yet.">>
              /\ Return(Ok)
              /\ UNCHANGED <<listed, unreadable>>
         ELSE \/ /\ \E e \in {"ReadDirFailed", "ReadEntryFailed"} : Return(Err(e))
                 /\ UNCHANGED <<out, listed, unreadable>>
              \/ /\ \E n \in Names : store[n] = Garbage
                 /\ Return(Err("DeserializeFailed"))
                 /\ UNCHANGED <<out, listed, unreadable>>
              \/ \E unread \in SUBSET {n \in Names : Exists(store, n)} :
                   \E configs \in Orders(Enumerate(DirEntries(store, others), unread)) :
                     /\ unreadable' = unread
                     /\ listed' = configs
                     /\ out' = ListOutput(configs)
                     /\ Return(Ok)
    /\ UNCHANGED <<store, env, op, config, exec_args, store0, prompts, probes, launches,
                   dir_exists, others, hist>>

\* The body of list_command: the missing directory, read_dir and its entries
\* (either can fail), the loop over the entries, the printing.
ListRun ==
    /\ pc = "ls_dir"
    /\ IF ~dir_exists
         THEN /\ out' = <<"No configurations saved yet.">>
              /\ Return(Ok)
              /\ UNCHANGED <<listed, unreadable>>
         ELSE \/ /\ \E e \in {"ReadDirFailed", "ReadEntryFailed"} : Return(Err(e))
                 /\ UNCHANGED <<out, listed, unreadable>>
              \/ \E unread \in SUBSET {n \in Names : Exists(store, n)} :
                   \E configs \in Orders(Enumerate(DirEntries(store, others), unread)) :
                     /\ unreadable' = unread
                     /\ listed' = configs
                     /\ out' = ListOutput(configs)
                     /\ Return(Ok)
    /\ UNCHANGED <<store, env, op, config, exec_args, store0, prompts, probes, launches,
                   dir_exists, others, hist>>

\* The process dies during list: it is killed, or println! panics, before
\* the loop or in the printing after it; it can die after the last line too.
ListCrash ==
    /\ pc = "ls_dir"
    /\ \/ UNCHANGED <<out, listed, unreadable>>
       \/ /\ ~dir_exists
          /\ \E printed \in Printed(<<"No configurations saved yet.">>) : out' = printed
          /\ UNCHANGED <<listed, unreadable>>
       \/ /\ dir_exists
          /\ \E unread \in SUBSET {n \in Names : Exists(store, n)} :
               \E configs \in Orders(Enumerate(DirEntries(store, others), unread)) :
                 /\ unreadable' = unread
                 /\ listed' = configs
                 /\ \E printed \in Printed(ListOutput(configs)) : out' = printed
    /\ Return(Crashed)
    /\ UNCHANGED <<store, env, op, config, exec_args, store0, prompts, probes, launches,
                   dir_exists, others, hist>>

(***************************************************************************)
(* save(name, record): the directory is created when absent, the record is *)
(* written over whatever the name held.                                    *)
(***************************************************************************)
SaveStart(name, record) ==
    Begin([NoOp EXCEPT !.cmd = "save", !.name = name, !.record = record], "sv_write")

SaveWrite ==
    /\ pc = "sv_write"
    /\ \/ /\ ~dir_exists
          /\ Return(Err("CreateDirFailed"))
          /\ UNCHANGED <<store, dir_exists, hist>>
       \/ \E w \in FsWrite(store, op.name, ToJson(op.record)) :
            /\ dir_exists' = TRUE
            /\ store' = w.st
            /\ hist' = IF w.st[op.name] # store[op.name]
                         THEN Written(hist, op.name) ELSE hist
            /\ IF w.ok THEN Return(Ok) ELSE Return(Err("WriteFailed"))
    /\ UNCHANGED <<env, op, config, exec_args, out, store0, prompts, probes, launches,
                   others, listed, unreadable>>

\* The process dies during save: before it touched anything, or inside or
\* after the write of the file.
SaveCrash ==
    /\ pc = "sv_write"
    /\ \/ UNCHANGED <<store, dir_exists, hist>>
       \/ \E w \in FsWrite(store, op.name, ToJson(op.record)) :
            /\ dir_exists' = TRUE
            /\ store' = w.st
            /\ hist' = IF w.st[op.name] # store[op.name]
                         THEN Written(hist, op.name) ELSE hist
    /\ Return(Crashed)
    /\ UNCHANGED <<env, op, config, exec_args, out, store0, prompts, probes, launches,
                   others, listed, unreadable>>

Next ==
    \/ \E old \in Names, new \in Names, desc \in DescOverrides, force \in BOOLEAN :
          RenameStart(old, new, desc, force)
    \/ RenameCheckOld
    \/ RenameCheckNew
    \/ RenameLoad
    \/ RenameWrite
    \/ RenameRemove
    \/ RenameReport
    \/ RenameCrash
    \/ \E name \in Names, debug \in BOOLEAN, full \in BOOLEAN :
          ExecStart(name, debug, full)
    \/ ExecCheck
    \/ ExecLoad
    \/ ExecVersion
    \/ ExecArgs
    \/ ExecLaunch
    \/ ExecCrash
    \/ \E name \in Names : RemoveStart(name)
    \/ RemoveCheck
    \/ RemoveFile
    \/ RemoveReport
    \/ RemoveCrash
    \/ \E name \in Names : PrintStart(name)
    \/ PrintCheck
    \/ PrintLoad
    \/ PrintCrash
    \/ ListStart
    \/ ListRun
    \/ ListCrash
    \/ \E name \in Names, record \in Records : SaveStart(name, record)
    \/ SaveWrite
    \/ SaveCrash
    \/ Exit

Spec == Init /\ [][Next]_vars

\* The same program with the history of its names recorded.
SpecHist == InitHist /\ [][Next]_vars

\* The same program started with any content of the directory.
SpecDir == InitDir /\ [][Next]_vars

(***************************************************************************)
(* Properties of rename.                                                   *)
(***************************************************************************)
InRename == op.cmd = "rename"
\* rename has returned to its caller (it was not killed).
RenameReturned == InRename /\ pc = "done" /\ result.kind \in {"ok", "err"}
RenameCancelled == out = <<"Rename cancelled">>
\* The record rename is to store under new: old's record with the overlay.
RenamedFile == ToJson(Overlay(FromJson(store0[op.name]), op.desc))

\* C1: during rename(old, new) with old # new, in every state of the
\* operation (a crash or failure at any point included) old's file is still
\* as it was, or new holds the record: the configuration is never absent
\* from both, so old is removed only after new was written.
C1_WriteBeforeDelete ==
    (InRename /\ op.name # op.new_name /\ Deserializes(store0[op.name]))
      => \/ store[op.name] = store0[op.name]
         \/ store[op.new_name] = RenamedFile

\* C1 witness: the process died after the write and before the delete; both
\* names hold the configuration.
C1_Witness ==
    /\ InRename /\ op.name # op.new_name
    /\ pc = "done" /\ result = Crashed
    /\ Deserializes(store0[op.name])
    /\ store[op.new_name] = RenamedFile
    /\ store[op.name] = store0[op.name]
    /\ store0[op.new_name] # RenamedFile

\* C2: when the write to new fails, rename returns an error and old's file is
\* present and unchanged; when the write succeeds and the delete of old
\* fails, rename returns an error, new holds the record and old is present.
C2_PartialFailure ==
    RenameReturned =>
      /\ result.err = "WriteFailed" =>
           /\ result.kind = "err"
           /\ Exists(store, op.name)
           /\ store[op.name] = store0[op.name]
      /\ result.err = "DeleteFailed" =>
           /\ result.kind = "err"
           /\ store[op.new_name] = RenamedFile
           /\ Exists(store, op.name)

\* C3: old exists, new exists, force is false and the prompt answers no:
\* both files are as before and rename returns success, reporting the
\* cancellation.
C3_DeclinedIsNoOp ==
    (/\ RenameReturned
     /\ Exists(store0, op.name) /\ Exists(store0, op.new_name)
     /\ ~op.force /\ prompts = <<"no">>)
      => /\ store = store0
         /\ result = Ok
         /\ RenameCancelled

\* C3 witness: a declined rename between two different stored records.
C3_Witness ==
    /\ RenameReturned /\ op.name # op.new_name
    /\ Deserializes(store0[op.name]) /\ Deserializes(store0[op.new_name])
    /\ store0[op.name] # store0[op.new_name]
    /\ ~op.force /\ prompts = <<"no">>

\* C4 as stated: rename prompts exactly when new exists and force is false.
C4_PromptIff_AsStated ==
    RenameReturned => (prompts # <<>> <=> (Exists(store0, op.new_name) /\ ~op.force))

\* C4 amended: a rename whose old exists prompts exactly when new exists and
\* force is false.  With new absent and force false it does not prompt and,
\* when it succeeds, ends with new present and old absent; with force true
\* an existing new is overwritten by the write step without any prompt.
C4_PromptIff ==
    /\ (RenameReturned /\ Exists(store0, op.name))
         => (prompts # <<>> <=> (Exists(store0, op.new_name) /\ ~op.force))
    /\ (RenameReturned /\ ~Exists(store0, op.new_name) /\ ~op.force /\ result = Ok)
         => /\ prompts = <<>>
            /\ Exists(store, op.new_name)
            /\ ~Exists(store, op.name)
    /\ (InRename /\ op.force) => prompts = <<>>
    /\ (InRename /\ op.force /\ pc = "rn_remove") => store[op.new_name] = RenamedFile

\* C4 witness: a forced rename has just overwritten a different record under
\* new, and no prompt was issued.
C4_Witness ==
    /\ InRename /\ op.force /\ pc = "rn_remove"
    /\ op.name # op.new_name
    /\ Deserializes(store0[op.new_name])
    /\ store0[op.new_name] # store[op.new_name]
    /\ prompts = <<>>

\* C5: rename of a name with no stored configuration fails with a not-found
\* error at its first step: while it runs and when it has returned, no prompt
\* was issued and the store is as before, new's file included.
C5_NotFoundFirst ==
    (InRename /\ ~Exists(store0, op.name))
      => /\ pc \in {"rn_check_old", "done"}
         /\ prompts = <<>>
         /\ store = store0
         /\ RenameReturned => result = Err("NotFound")

\* C5 witness: the rename of an absent name onto an existing one has failed.
C5_Witness ==
    /\ RenameReturned
    /\ ~Exists(store0, op.name) /\ Exists(store0, op.new_name) /\ ~op.force
    /\ result = Err("NotFound")

\* C6: the record written under new has old's qemu_bin, args and
\* qemu_version; its desc is the override when one is given and old's desc
\* (absence included) when none is given.
C6_WrittenRecord ==
    (InRename /\ pc = "rn_remove") =>
      LET written == FromJson(store[op.new_name])
          loaded == FromJson(store0[op.name])
      IN /\ Deserializes(store[op.new_name])
         /\ written.qemu_bin = loaded.qemu_bin
         /\ written.args = loaded.args
         /\ written.qemu_version = loaded.qemu_version
         /\ written.desc = IF IsSome(op.desc) THEN op.desc ELSE loaded.desc

\* C6 witness: a record with a description was written under another name
\* with no override given.
C6_Witness ==
    /\ InRename /\ pc = "rn_remove"
    /\ op.name # op.new_name
    /\ op.desc = None
    /\ IsSome(FromJson(store[op.new_name]).desc)
    /\ Len(FromJson(store[op.new_name]).args) > 0

\* C7: for all old and new, old = new included, after a rename that returned
\* success and was not cancelled, new exists and holds old's record with the
\* overlay applied.
C7_NewHoldsRecord ==
    (RenameReturned /\ result = Ok /\ ~RenameCancelled)
      => /\ Exists(store, op.new_name)
         /\ store[op.new_name] = RenamedFile

(***************************************************************************)
(* Properties of exec.                                                     *)
(***************************************************************************)
InExec == op.cmd = "exec"
\* exec has returned to its caller (the process did not die).
ExecReturned == InExec /\ pc = "done" /\ result.kind \in {"ok", "err"}
ExecDied == InExec /\ result = Crashed
\* exec has loaded the record of its configuration.
ExecLoaded == InExec /\ config # NoConfig
ExecPastVersion == ExecLoaded /\ pc \in {"ex_args", "ex_launch", "done"} /\ ~ExecDied

\* C8: once the record is loaded exec launches the binary, whatever the
\* version check finds: the probe is queried exactly when the record has a
\* qemu_version, its answer decides the warning and nothing else, and exec
\* returns only after the launch.  (An exec whose process dies, killed or in
\* a println! that cannot write, launches nothing more; it has queried the
\* probe under the same condition.)
C8_VersionAdvisory ==
    /\ ExecPastVersion =>
         /\ Len(probes) = (IF IsSome(config.qemu_version) THEN 1 ELSE 0)
         /\ \A i \in 1..Len(probes) :
              /\ probes[i].bin = config.qemu_bin
              /\ out \in {VersionWarning(Unwrap(config.qemu_version), probes[i].answer)
                            \o tail : tail \in {<<>>, StartupMessage(op.debug, op.full)}}
         /\ pc = "done" => Len(launches) = 1
    /\ (InExec /\ ~ExecPastVersion /\ ~ExecDied) => probes = <<>>
    /\ InExec => Len(probes) <= (IF IsSome(config.qemu_version) THEN 1 ELSE 0)
    /\ (ExecReturned /\ launches = <<>>) => ~ExecLoaded

\* C8 witness: the probe could not tell the version, the warning was printed
\* and the binary was launched all the same.
C8_Witness ==
    /\ ExecReturned /\ ExecLoaded
    /\ Len(probes) = 1 /\ probes[1].answer = None
    /\ out[1] = "WARNING: Could not detect current QEMU version."
    /\ Len(launches) = 1

\* C9: the argument list passed to the binary is substitute(record.args),
\* followed by "-s" and "-S" in that order when debug is set and by nothing
\* when it is not.
C9_DebugInjection ==
    \A i \in 1..Len(launches) :
      LET record == FromJson(store0[op.name])
          effective == substitute_params(record.args, env)
          passed == launches[i].args
      IN IF op.debug
           THEN /\ Len(passed) = Len(effective) + 2
                /\ SubSeq(passed, 1, Len(effective)) = effective
                /\ passed[Len(passed) - 1] = <<"-", "s">>
                /\ passed[Len(passed)] = <<"-", "S">>
           ELSE passed = effective

\* C9 witness: a debug launch of a record whose arguments were changed by
\* the substitution.
C9_Witness ==
    /\ Len(launches) = 1 /\ op.debug
    /\ Len(config.args) > 0
    /\ substitute_params(config.args, env) # config.args
    /\ Len(launches[1].args) = Len(config.args) + 2

\* C10: after a spawn exec succeeds exactly when the exit status is success;
\* a failing exit with code c fails carrying c, a termination without a code
\* fails carrying -1, and a failed spawn fails with an I/O error that names
\* the binary.
C10_ExitPropagation ==
    (ExecReturned /\ launches # <<>>) =>
      LET status == launches[1].status
      IN /\ status.spawned => (result = Ok <=> status.code = Some(0))
         /\ \A c \in 1..MaxExitCode :
              (status.spawned /\ status.code = Some(c))
                => (result.kind = "err" /\ result.err = "ExecutionFailed"
                      /\ result.code = c)
         /\ (status.spawned /\ status.code = None)
              => (result.kind = "err" /\ result.err = "ExecutionFailed"
                    /\ result.code = -1)
         /\ ~status.spawned
              => (result.kind = "err" /\ result.err = "SpawnFailed"
                    /\ result.path = FromJson(store0[op.name]).qemu_bin)

\* C10 witness: the binary exited with code 3 and exec failed carrying 3.
C10_Witness ==
    /\ ExecReturned /\ Len(launches) = 1
    /\ launches[1].status = [spawned |-> TRUE, code |-> Some(3), seen |-> TRUE]
    /\ result.err = "ExecutionFailed" /\ result.code = 3

\* The steps of exec in order: Idle, (existence check), Loaded, (version
\* check), Substituted, Launched, returned.
ExecStepOrder ==
    { <<"idle", "ex_check">>, <<"ex_check", "ex_load">>, <<"ex_load", "ex_version">>,
      <<"ex_version", "ex_args">>, <<"ex_args", "ex_launch">>, <<"ex_launch", "done">>,
      <<"ex_check", "done">>, <<"ex_load", "done">>, <<"done", "idle">> }

\* C11: every exec goes Idle -> Loaded -> Substituted -> Launched -> one of
\* Succeeded, Failed(code), SpawnError, no step skipped or repeated; the
\* binary is launched at most once and only by the launch step, which ends
\* the invocation; an absent or malformed configuration makes exec fail
\* before the probe, the banner and the launch.  (The one other way an exec
\* ends is the death of its process, which can cut the sequence after any
\* step; it skips and repeats nothing either.)
C11_ExecStateMachine ==
    /\ [](InExec =>
            /\ Len(launches) <= 1
            /\ launches # <<>> =>
                 /\ pc = "done"
                 /\ IF launches[1].status.seen
                      THEN result = ExitResult(launches[1].status, config.qemu_bin)
                      ELSE result = Crashed
            /\ ~ExecDied =>
                 (ExecLoaded <=> (pc \in {"ex_version", "ex_args", "ex_launch"}
                                    \/ launches # <<>>))
            /\ (pc = "ex_launch" \/ launches # <<>>)
                 => exec_args = DebugArgs(substitute_params(config.args, env), op.debug)
            /\ ~Deserializes(store0[op.name]) =>
                 /\ probes = <<>> /\ out = <<>> /\ launches = <<>>
                 /\ pc \in {"ex_check", "ex_load", "done"}
                 /\ pc = "done" => result.kind \in {"err", "crashed"}
            /\ (ExecReturned /\ ~Exists(store0, op.name)) => result = Err("NotFound"))
    /\ [][(InExec \/ InExec') =>
            /\ <<pc, pc'>> \in ExecStepOrder \/ (pc # "idle" /\ result' = Crashed)
            /\ Len(launches') > Len(launches) => (pc = "ex_launch" /\ Len(launches') = 1)
            /\ Len(probes') > Len(probes) => pc = "ex_version"]_vars

\* C11 witness: the spawn failed; exec returned the error after one launch.
C11_Witness ==
    /\ ExecReturned
    /\ Len(launches) = 1 /\ ~launches[1].status.spawned
    /\ result.err = "SpawnFailed"

(***************************************************************************)
(* Properties of the reading commands.                                     *)
(***************************************************************************)
InPrint == op.cmd = "print"
InList == op.cmd = "list"

\* C12: exec, print and list never change the store: in every state of
\* these commands, returned with success or failure, for any flags, the
\* stored names and every stored record are those of the start.
C12_ReadersKeepStore ==
    (InExec \/ InPrint \/ InList) => store = store0

\* C12 witness: a debug exec with the full banner has launched with
\* arguments that differ from the stored ones, and the store is as before.
C12_Witness ==
    /\ ExecReturned /\ op.debug /\ op.full
    /\ Len(launches) = 1
    /\ launches[1].args # FromJson(store[op.name]).args
    /\ substitute_params(config.args, env) # config.args

(***************************************************************************)
(* Properties of substitute_params.                                        *)
(***************************************************************************)
\* s[i..j] is an occurrence of ${NAME}: NAME is s[i+2..j-1], one or more
\* characters other than the closing brace.
IsPlaceholder(s, i, j) ==
    /\ i >= 1 /\ j <= Len(s) /\ j >= i + 3
    /\ s[i] = "$" /\ s[i + 1] = "{" /\ s[j] = "}"
    /\ \A k \in (i + 2)..(j - 1) : s[k] # "}"
HasPlaceholder(s) == \E i, j \in 1..Len(s) : IsPlaceholder(s, i, j)
\* The leftmost occurrence.
FirstStart(s) ==
    CHOOSE i \in 1..Len(s) :
      /\ \E j \in 1..Len(s) : IsPlaceholder(s, i, j)
      /\ \A h \in 1..(i - 1) : ~\E j \in 1..Len(s) : IsPlaceholder(s, h, j)
FirstEnd(s) == CHOOSE j \in 1..Len(s) : IsPlaceholder(s, FirstStart(s), j)
FirstName(s) == SubSeq(s, FirstStart(s) + 2, FirstEnd(s) - 1)
AfterFirst(s) == SubSeq(s, FirstEnd(s) + 1, Len(s))
Substituted == pc = "sub_done"

C14_Elementwise ==
    Substituted =>
      /\ Len(exec_args) = Len(config.args)
      /\ \A k \in 1..Len(config.args) :
           /\ k <= Len(exec_args)
           /\ exec_args[k] = substitute_params(<<config.args[k]>>, env)[1]
      /\ (\A k \in 1..Len(config.args) : ~HasPlaceholder(config.args[k]))
           => exec_args = config.args

\* C14 witness: a list of three arguments whose middle one came out
\* shorter; the first is kept and the list keeps its length.
C14_Witness ==
    /\ Substituted
    /\ Len(config.args) = 3 /\ Len(exec_args) = 3
    /\ exec_args[1] = config.args[1]
    /\ Len(exec_args[2]) < Len(config.args[2])

\* C15: one pass, not recursive: where the leftmost ${NAME} has a set NAME,
\* its value stands in the output verbatim at that place, also when the
\* value contains ${OTHER} with OTHER set; the text before it is the input's
\* and the text after it is the substitution of the rest of the input alone,
\* so text formed by joining the value with its neighbours is not scanned.
C15_SinglePass ==
    Substituted =>
      \A k \in 1..Len(config.args) :
        LET s == config.args[k]
            o == exec_args[k]
        IN (HasPlaceholder(s) /\ FirstName(s) \in DOMAIN env) =>
             LET v == env[FirstName(s)]
                 i == FirstStart(s)
             IN /\ Len(o) >= i - 1 + Len(v)
                /\ SubSeq(o, 1, i - 1) = SubSeq(s, 1, i - 1)
                /\ SubSeq(o, i, i - 1 + Len(v)) = v
                /\ SubSeq(o, i + Len(v), Len(o)) = ReplaceAll(AfterFirst(s), 1, env)

\* C15 witness: A is "${B}" and B is set; "${A}" gives "${B}", which is
\* left in the output.
C15_Witness ==
    /\ Substituted
    /\ <<"B">> \in DOMAIN env
    /\ Len(config.args) = 2 /\ config.args[2] = A_varA
    /\ exec_args[2] = <<"$", "{", "B", "}">>

ListReturned == InList /\ pc = "done" /\ result.kind \in {"ok", "err"}

\* C16: list never fails because of a corrupt entry: its only errors are
\* failures to read the directory itself.  When it succeeds it has collected,
\* once each, exactly the <name>.json entries whose file was read and
\* deserializes (one valid and one malformed file give one entry), and it
\* reports no configurations, without error, when the directory is missing.
C16_EnumerateSkipsCorrupt ==
    ListReturned =>
      /\ result.kind = "err" => result.err \in {"ReadDirFailed", "ReadEntryFailed"}
      /\ result = Ok =>
           /\ {listed[i] : i \in 1..Len(listed)}
                = {[name |-> n, config |-> FromJson(store[n])] :
                     n \in {m \in Names : Deserializes(store[m]) /\ m \notin unreadable}}
           /\ \A i, j \in 1..Len(listed) : listed[i].name = listed[j].name => i = j
      /\ ~dir_exists =>
           /\ result = Ok
           /\ listed = <<>>
           /\ out = <<"No configurations saved yet.">>

\* C16 witness: one valid and one malformed configuration next to entries
\* without the suffix; list succeeded with exactly the valid one.
C16_Witness ==
    /\ ListReturned /\ result = Ok
    /\ others # {}
    /\ unreadable = {}
    /\ \E n \in Names : store[n] = Garbage
    /\ Cardinality({n \in Names : Deserializes(store[n])}) = 1
    /\ Len(listed) = 1

(***************************************************************************)
(* Properties of rm.                                                       *)
(***************************************************************************)
InRemove == op.cmd = "rm"
RemoveReturned == InRemove /\ pc = "done" /\ result.kind \in {"ok", "err"}

\* C17: rm(name) on an existing name succeeds, leaves name absent and every
\* other configuration as it was; rm(name) on an absent name fails with a
\* not-found error and leaves the store as it was.  (The one other outcome
\* of a rm that returns is the file system refusing the removal: rm returns
\* that error and the store is as it was.)  Until fs::remove_file has
\* returned the store is as it was, and a rm that dies touches no other name.
C17_RemoveExactlyNamed ==
    /\ RemoveReturned =>
         IF Exists(store0, op.name)
           THEN \/ /\ result = Ok
                   /\ ~Exists(store, op.name)
                   /\ \A m \in Names \ {op.name} : store[m] = store0[m]
                \/ /\ result = Err("DeleteFailed")
                   /\ store = store0
           ELSE result = Err("NotFound") /\ store = store0
    /\ (InRemove /\ pc \in {"rm_check", "rm_remove"}) => store = store0
    /\ InRemove => \A m \in Names \ {op.name} : store[m] = store0[m]

\* C17 witness: rm removed one of two stored configurations.
C17_Witness ==
    /\ RemoveReturned /\ result = Ok
    /\ ~Exists(store, op.name) /\ Exists(store0, op.name)
    /\ \E m \in Names \ {op.name} : Deserializes(store[m])

(***************************************************************************)
(* Names over sequences of commands (SpecHist).                            *)
(***************************************************************************)
\* A command that looks a name up has returned to its caller.
LookupReturned ==
    /\ op.cmd \in {"exec", "print", "rm", "rename"}
    /\ pc = "done"
    /\ result.kind \in {"ok", "err"}

\* A name taken away by rm or rename has no file, and a command looking it
\* up fails with the not-found error.
GoneIsNotFound ==
    /\ \A n \in hist.gone : ~Exists(store, n)
    /\ (LookupReturned /\ op.name \in hist.gone0) => result = Err("NotFound")

\* exec or print has loaded the record of the target of the last rename.
LoadedMoved ==
    /\ InExec \/ InPrint
    /\ config # NoConfig
    /\ hist.moved.to = op.name

\* C18 as stated: after a successful rm(n) or rename(n, m), m # n, lookups of
\* n fail with the not-found error until a save or a rename onto n creates
\* it, and exec(m) and print(m) load the very record that n held.
C18_LookupsConsistent_AsStated ==
    /\ GoneIsNotFound
    /\ LoadedMoved => config = FromJson(hist.moved.file)

\* C18, amended: the same, where the record exec(m) and print(m) load is the
\* record that n held with the description override of the rename applied.
C18_LookupsConsistent ==
    /\ GoneIsNotFound
    /\ LoadedMoved => config = Overlay(FromJson(hist.moved.file), hist.moved.desc)

\* exec has loaded the record of m after a rename onto m that overrode the
\* description, while the source of the rename is still gone.
C18_Witness ==
    /\ LoadedMoved /\ InExec
    /\ IsSome(hist.moved.desc)
    /\ config # FromJson(hist.moved.file)
    /\ \E n \in hist.gone : n # op.name /\ ~Exists(store, n)

\* rename of a name whose file does not deserialize, going on past the check
\* of new: new is absent, or force is set, or the prompt was answered yes.
MalformedOld ==
    /\ InRename
    /\ store0[op.name] = Garbage
    /\ \/ ~Exists(store0, op.new_name)
       \/ op.force
       \/ prompts = <<"yes">>

\* C19: when the file of old exists and does not deserialize, rename (new
\* absent, or force, or an affirmative answer) writes nothing, so old's file
\* stays and new's path is as it was, and it fails with the deserialization
\* error; when the read of the file itself fails the error is the read's.
C19_MalformedOld ==
    MalformedOld =>
      /\ store = store0
      /\ pc \notin {"rn_write", "rn_remove", "rn_report"}
      /\ RenameReturned =>
            result \in {Err("DeserializeFailed"), Err("ReadFailed")}

\* The rename was confirmed at the prompt and failed with the deserialization
\* error; new still holds its record and old its malformed file.
C19_Witness ==
    /\ MalformedOld /\ RenameReturned
    /\ result = Err("DeserializeFailed")
    /\ prompts = <<"yes">>
    /\ op.new_name # op.name
    /\ Deserializes(store[op.new_name])
    /\ store[op.name] = Garbage

====
